---------------------------- MODULE Spec2Model ----------------------------
(***************************************************************************)
(* journald-writer: a daemon that tails the systemd journal, writes one    *)
(* formatted line per entry to a log writer and remembers the cursor of    *)
(* the last entry in a cursor file (src/src/main.rs, src/src/writer.rs).   *)
(*                                                                         *)
(* The model follows one process at a time through main_err, run,          *)
(* find_cursor, the blocking iteration and write_log_line / write_cursor,  *)
(* step by step, so that a crash can fall between any two file system      *)
(* operations.  The journal, the sink, the cursor file and its staging     *)
(* file ("<cursor>.~") outlive the process.                                *)
(***************************************************************************)
EXTENDS Integers, Sequences, FiniteSets, TLC

\* Bounds of the model.
MaxRecords == 2     \* entries the journal ever holds
MaxTokLen == 2      \* longest __CURSOR string, in bytes
MaxStarts == 2      \* process starts (first start and restarts)

VARIABLES
    journal,     \* the journal: a sequence of entries, append-only
    boot,        \* index of the first entry of the current boot
    pc,          \* where the process is; "down" when no process runs
    exit,        \* how the last process ended ("none" while it runs)
    handler,     \* handle_sig is installed for SIGTERM
    EXIT_FLAG,   \* static EXIT_FLAG: AtomicBool
    reader,      \* position of the JournalReader
    entry,       \* index of the entry held by the loop, 0 if none
    sink,        \* lines the log writer has made durable (entry indices)
    sinkBuf,     \* lines written to the log writer and not yet flushed
    cursorFile,  \* the cursor file
    tmpFile,     \* the staging file, cursor path with extension "~"
    woff,        \* bytes write_all has written to the staging file
    starts,      \* history: number of process starts
    runCursor,   \* history: entry the cursor file named at find_cursor, 0 if none
    runSink0,    \* history: Len(sink) when the process started
    runLen0,     \* history: Len(journal) when the process started
    sinceFlag,   \* history: lines flushed in this run while EXIT_FLAG was set
    origin,      \* history: first entry the last start without a cursor file was to yield
    stdout,      \* the lines the process has printed to its standard output
    cause        \* history: the context of the error that ended the last process

vars == <<journal, boot, pc, exit, handler, EXIT_FLAG, reader, entry, sink,
          sinkBuf, cursorFile, tmpFile, woff, starts, runCursor, runSink0,
          runLen0, sinceFlag, origin, stdout, cause>>

-----------------------------------------------------------------------------
(* Files *)

NoFile == [exists |-> FALSE, data |-> <<>>]

File(d) == [exists |-> TRUE, data |-> d]

\* One byte written at offset off of an open file: it overwrites the byte
\* there or extends the file; bytes behind it stay.
WriteAt(d, off, b) ==
    IF off < Len(d) THEN [d EXCEPT ![off + 1] = b] ELSE Append(d, b)

-----------------------------------------------------------------------------
(* The journal *)

\* The __CURSOR of the i-th entry with a cursor of n bytes; entries differ
\* in every byte, an entry without the field has the empty string.
Token(i, n) == [j \in 1..n |-> i]

\* A field of an entry that may be missing; a value is a string, kept as
\* the sequence of its pieces (characters or words).
None == [some |-> FALSE, val |-> <<>>]

Some(v) == [some |-> TRUE, val |-> v]

\* The entries journald may append as the i-th: with or without __CURSOR,
\* with or without MESSAGE; the fields the line is made of are fixed here
\* and vary in FieldEntries.
Entries(i) ==
    { [cursor |-> Token(i, n), msg |-> m, text |-> IF m THEN <<"m">> ELSE <<>>,
       prio |-> Some(<<"6">>), host |-> None, ident |-> None] :
      n \in 0..MaxTokLen, m \in BOOLEAN }

HasCursor(e) == Len(journal[e].cursor) > 0

\* The entries whose cursor is c.
Named(c) == { i \in 1..Len(journal) : HasCursor(i) /\ journal[i].cursor = c }

-----------------------------------------------------------------------------
(* The line of an entry: write_log_line's priority and writeln! arguments *)

Digits == <<"0", "1", "2", "3", "4", "5", "6", "7", "8", "9">>

IsDigit(ch) == \E d \in DOMAIN Digits : Digits[d] = ch

DigitValue(ch) == (CHOOSE d \in DOMAIN Digits : Digits[d] = ch) - 1

\* str::parse::<u8> on the digits left of a string, acc the value so far:
\* -1 for a character that is no digit and for a value above 255.
RECURSIVE ParseDigits(_, _)
ParseDigits(str, acc) ==
    IF str = <<>> THEN acc
    ELSE IF ~IsDigit(Head(str)) THEN -1
    ELSE IF acc * 10 + DigitValue(Head(str)) > 255 THEN -1
    ELSE ParseDigits(Tail(str), acc * 10 + DigitValue(Head(str)))

\* value.parse::<u8>(): an optional "+", then at least one digit; -1 is Err.
ParseU8(str) ==
    IF str = <<>> THEN -1
    ELSE IF Head(str) = "+" THEN (IF Tail(str) = <<>> THEN -1 ELSE ParseDigits(Tail(str), 0))
    ELSE ParseDigits(str, 0)

\* Mutant: the match arms of Crit and Err are exchanged.
TryFromU8Swapped(value) ==
    CASE value = 0 -> "Emerg"
      [] value = 1 -> "Alert"
      [] value = 2 -> "Err"
      [] value = 3 -> "Crit"
      [] value = 4 -> "Warning"
      [] value = 5 -> "Notice"
      [] value = 6 -> "Info"
      [] value = 7 -> "Debug"
      [] OTHER -> "not supported"

\* impl TryFrom<u8> for Priority; "not supported" is the Err of bail!.
TryFromU8(value) ==
    CASE value = 0 -> "Emerg"
      [] value = 1 -> "Alert"
      [] value = 2 -> "Crit"
      [] value = 3 -> "Err"
      [] value = 4 -> "Warning"
      [] value = 5 -> "Notice"
      [] value = 6 -> "Info"
      [] value = 7 -> "Debug"
      [] OTHER -> "not supported"

\* impl TryFrom<&str> for Priority: parse, then try_from(u8).
TryFromStr(str) ==
    IF ParseU8(str) = -1 THEN "not supported" ELSE TryFromU8(ParseU8(str))

\* Mutant: a PRIORITY that is missing or does not convert counts as Debug.
PriorityDefaultDebug(field) ==
    IF field.some /\ TryFromStr(field.val) # "not supported"
    THEN TryFromStr(field.val)
    ELSE "Debug"

\* write_log_line: get_field("PRIORITY").map(try_into().ok()).flatten()
\* .unwrap_or(Priority::Emerg).
PriorityOf(field) ==
    IF field.some /\ TryFromStr(field.val) # "not supported"
    THEN TryFromStr(field.val)
    ELSE "Emerg"

\* impl fmt::Display for Priority.
Display(prio) ==
    CASE prio = "Emerg" -> "Emergency"
      [] prio = "Alert" -> "Alert"
      [] prio = "Crit" -> "Critical"
      [] prio = "Err" -> "Error"
      [] prio = "Warning" -> "Warning"
      [] prio = "Notice" -> "Notice"
      [] prio = "Info" -> "Informational"
      [] prio = "Debug" -> "Debug"

UnwrapOr(field, default) == IF field.some THEN field.val ELSE default

\* The text writeln! writes for an entry, before the line feed it adds:
\* "{utc} {local} [{severity}] {host}: {identifier}: {message}".  The two
\* renderings of the reception time are one piece each.
FormatLine(e) ==
    <<"<utc_time>", " ", "<local_time>", " ", "[", Display(PriorityOf(e.prio)), "]", " ">>
        \o UnwrapOr(e.host, <<"airlink">>) \o <<":", " ">>
        \o UnwrapOr(e.ident, <<>>) \o <<":", " ">>
        \o e.text

-----------------------------------------------------------------------------
(* The journal reader.  As with sd-journal, a seek only sets a location:   *)
(* the first step after it, in either direction, lands on the entry the    *)
(* location addresses; a step from a current entry moves by one.           *)

Closed == [mode |-> "closed", idx |-> 0]

\* reader.seek(JournalSeek::Cursor(c)): the location of the entry named c.
SeekCursor(c) == [mode |-> "seek", idx |-> CHOOSE i \in Named(c) : TRUE]

\* reader.seek(JournalSeek::ThisBoot): the start of the current boot.
SeekThisBoot == [mode |-> "before", idx |-> boot]

\* reader.previous_entry(): Ok(None) leaves the position where it was.
PreviousEntry(r) ==
    CASE r.mode = "seek" -> [mode |-> "at", idx |-> r.idx]
      [] r.mode = "before" -> IF r.idx > 1 THEN [mode |-> "at", idx |-> r.idx - 1] ELSE r
      [] r.mode = "at" -> IF r.idx > 1 THEN [mode |-> "at", idx |-> r.idx - 1] ELSE r
      [] OTHER -> r

\* The entry the next step forward yields (it may not exist yet).
NextIndex(r) == IF r.mode = "at" THEN r.idx + 1 ELSE r.idx

-----------------------------------------------------------------------------
(* The process *)

\* The process ends: how is "ok" (main returns), "error" (main_err
\* returned an error, exit(1)), the signal that killed it, or "crash".  What
\* the log writer still buffers reaches the sink or is lost; the statics and
\* everything open are gone.
Ends(how, why) ==
    /\ pc' = "down"
    /\ exit' = how
    /\ cause' = why
    /\ handler' = FALSE
    /\ EXIT_FLAG' = FALSE
    /\ reader' = Closed
    /\ entry' = 0
    /\ woff' = 0
    /\ sinkBuf' = <<>>
    /\ sink' \in {sink, sink \o sinkBuf}
    /\ runCursor' = 0
    /\ runSink0' = 0
    /\ runLen0' = 0
    /\ sinceFlag' = 0
    /\ stdout' = {}
    /\ UNCHANGED <<journal, boot, cursorFile, tmpFile, starts, origin>>

ProcessEnds(how) == Ends(how, "")

\* An error reaches main: it prints the error with its context and exits
\* with status 1.
Fails(context) == Ends("error", context)

\* A new process: statics are initialised, nothing is open.
Start ==
    /\ pc = "down"
    /\ starts < MaxStarts
    /\ pc' = "main"
    /\ exit' = "none"
    /\ handler' = FALSE
    /\ EXIT_FLAG' = FALSE
    /\ entry' = 0
    /\ starts' = starts + 1
    /\ runCursor' = 0
    /\ runSink0' = Len(sink)
    /\ runLen0' = Len(journal)
    /\ sinceFlag' = 0
    /\ stdout' = {}
    /\ cause' = ""
    /\ UNCHANGED <<journal, boot, reader, sink, sinkBuf, cursorFile, tmpFile, woff,
                   origin>>

\* main_err: signal::signal(Signal::SIGTERM, handler).
InstallHandler ==
    /\ pc = "main"
    /\ \/ /\ handler' = TRUE
          /\ pc' = "run"
          /\ UNCHANGED <<journal, boot, exit, EXIT_FLAG, reader, entry, sink, sinkBuf,
                         cursorFile, tmpFile, woff, starts, runCursor, runSink0,
                         runLen0, sinceFlag, origin, stdout, cause>>
       \/ Fails("Failed to install signal handler.")

\* Mutant: the handler is installed for every signal.
InstalledForAll(sig) == TRUE

\* The signals handle_sig is installed for.
Installed(sig) == sig = "SIGTERM"

\* handle_sig: the value it stores into EXIT_FLAG.
handle_sig(sig) == sig = "SIGTERM" \/ sig = "SIGHUP"

Signals == {"SIGTERM", "SIGHUP", "SIGINT", "SIGCHLD"}

\* Signals whose default disposition is to ignore them.
DefaultIgnored == {"SIGCHLD"}

\* handle_sig runs: println!("got signal"), then the store into EXIT_FLAG.
HandlerRuns(sig) ==
    /\ stdout' = stdout \cup {"got signal"}
    /\ EXIT_FLAG' = handle_sig(sig)
    /\ UNCHANGED <<journal, boot, pc, exit, handler, reader, entry, sink,
                   sinkBuf, cursorFile, tmpFile, woff, starts, runCursor,
                   runSink0, runLen0, sinceFlag, origin, cause>>

\* A signal reaches the process: the handler runs if one is installed for
\* it, otherwise the default disposition applies.
Signal(sig) ==
    /\ pc # "down"
    /\ IF handler /\ Installed(sig)
       THEN HandlerRuns(sig)
       ELSE IF sig \in DefaultIgnored
            THEN UNCHANGED vars
            ELSE ProcessEnds(sig)

\* run: LogWriter::new and open_reader's JournalReader::open.
RunOpen ==
    /\ pc = "run"
    /\ \/ /\ pc' = "find_cursor"
          /\ UNCHANGED <<journal, boot, exit, handler, EXIT_FLAG, reader, entry, sink,
                         sinkBuf, cursorFile, tmpFile, woff, starts, runCursor,
                         runSink0, runLen0, sinceFlag, origin, stdout, cause>>
       \/ Fails("Creating log writer at path")
       \/ Fails("Opening journal")

\* Mutant: find_cursor without the step back after the seek.
ResumeNoStepBack(c) == SeekCursor(c)

\* find_cursor with a cursor file: seek to the stored cursor, then
\* previous_entry.  Every byte of a cursor is ASCII, which from_utf8_lossy
\* leaves as it is.
ResumePosition(c) == PreviousEntry(SeekCursor(c))

\* find_cursor without a cursor file: seek to ThisBoot, then previous_entry.
FreshPosition == PreviousEntry(SeekThisBoot)

\* Mutant: a failed seek to the cursor is passed over and the reader is
\* left where open put it, at the head of the journal.
find_cursorSeekIgnored ==
    /\ pc = "find_cursor"
    /\ IF ~cursorFile.exists
       THEN \/ /\ reader' = FreshPosition
               /\ origin' = NextIndex(FreshPosition)
               /\ pc' = "reading"
               /\ UNCHANGED <<journal, boot, exit, handler, EXIT_FLAG, entry, sink,
                              sinkBuf, cursorFile, tmpFile, woff, starts, runCursor,
                              runSink0, runLen0, sinceFlag, stdout, cause>>
            \/ Fails("Seeking to journald tail")
            \/ Fails("Getting previous journald entry")
       ELSE \/ /\ Named(cursorFile.data) # {}
               /\ reader' = ResumePosition(cursorFile.data)
               /\ runCursor' = CHOOSE i \in Named(cursorFile.data) : TRUE
               /\ pc' = "reading"
               /\ UNCHANGED <<journal, boot, exit, handler, EXIT_FLAG, entry, sink,
                              sinkBuf, cursorFile, tmpFile, woff, starts, runSink0,
                              runLen0, sinceFlag, origin, stdout, cause>>
            \/ /\ reader' = [mode |-> "before", idx |-> 1]
               /\ pc' = "reading"
               /\ UNCHANGED <<journal, boot, exit, handler, EXIT_FLAG, entry, sink,
                              sinkBuf, cursorFile, tmpFile, woff, starts, runCursor,
                              runSink0, runLen0, sinceFlag, origin, stdout, cause>>
            \/ Fails("reading old cursor")
            \/ Fails("Getting previous journald entry")

\* find_cursor, from the check for the cursor file on (the directory of the
\* cursor file is taken to exist).
find_cursor ==
    /\ pc = "find_cursor"
    /\ IF ~cursorFile.exists
       THEN \/ /\ reader' = FreshPosition
               /\ origin' = NextIndex(FreshPosition)
               /\ pc' = "reading"
               /\ UNCHANGED <<journal, boot, exit, handler, EXIT_FLAG, entry, sink,
                              sinkBuf, cursorFile, tmpFile, woff, starts, runCursor,
                              runSink0, runLen0, sinceFlag, stdout, cause>>
            \/ Fails("Seeking to journald tail")
            \/ Fails("Getting previous journald entry")
       ELSE \/ /\ Named(cursorFile.data) # {}
               /\ reader' = ResumePosition(cursorFile.data)
               /\ runCursor' = CHOOSE i \in Named(cursorFile.data) : TRUE
               /\ pc' = "reading"
               /\ UNCHANGED <<journal, boot, exit, handler, EXIT_FLAG, entry, sink,
                              sinkBuf, cursorFile, tmpFile, woff, starts, runSink0,
                              runLen0, sinceFlag, origin, stdout, cause>>
            \/ Fails("reading old cursor")
            \/ Fails("seek to cursor")
            \/ Fails("Getting previous journald entry")

\* run: the blocking iterator yields the next entry, or an error.
IterNext ==
    /\ pc = "reading"
    /\ \/ /\ NextIndex(reader) <= Len(journal)
          /\ entry' = NextIndex(reader)
          /\ reader' = [mode |-> "at", idx |-> NextIndex(reader)]
          /\ pc' = "time"
          /\ UNCHANGED <<journal, boot, exit, handler, EXIT_FLAG, sink, sinkBuf,
                         cursorFile, tmpFile, woff, starts, runCursor, runSink0,
                         runLen0, sinceFlag, origin, stdout, cause>>
       \/ Fails("iterate over Journal entries")

-----------------------------------------------------------------------------
(* write_log_line and write_cursor *)

\* The cursor_update argument of write_log_line.  run's call names no
\* fourth argument; the model takes the call to ask for the update, which
\* is what the function did before the parameter was added.
cursor_update == TRUE

\* Where write_log_line goes after the flush: to write_cursor when the
\* update is asked for and the entry has a __CURSOR, else it returns.
\* Mutant: the cursor is saved whether or not the entry has a __CURSOR.
AfterFlushAlways(e) == "wc_open"

AfterFlush(e) == IF cursor_update /\ HasCursor(e) THEN "wc_open" ELSE "check"

\* write_log_line: get_reception_wallclock_time.
GetTime ==
    /\ pc = "time"
    /\ \/ /\ pc' = "writeln"
          /\ UNCHANGED <<journal, boot, exit, handler, EXIT_FLAG, reader, entry, sink,
                         sinkBuf, cursorFile, tmpFile, woff, starts, runCursor,
                         runSink0, runLen0, sinceFlag, origin, stdout, cause>>
       \/ Fails("Failed to get wallcklock time from systemd")

\* Mutant: an entry without a message is written with an empty message.
WriteLnEmptyMessage ==
    /\ pc = "writeln"
    /\ \/ /\ sinkBuf' = Append(sinkBuf, entry)
          /\ pc' = "flush"
          /\ UNCHANGED <<journal, boot, exit, handler, EXIT_FLAG, reader, entry, sink,
                         cursorFile, tmpFile, woff, starts, runCursor, runSink0,
                         runLen0, sinceFlag, origin, stdout, cause>>
       \/ Fails("write to log_writer")

\* write_log_line: writeln!.  Its arguments, the message among them, are
\* evaluated before anything is written.
WriteLn ==
    /\ pc = "writeln"
    /\ \/ /\ journal[entry].msg
          /\ sinkBuf' = Append(sinkBuf, entry)
          /\ pc' = "flush"
          /\ UNCHANGED <<journal, boot, exit, handler, EXIT_FLAG, reader, entry, sink,
                         cursorFile, tmpFile, woff, starts, runCursor, runSink0,
                         runLen0, sinceFlag, origin, stdout, cause>>
       \/ /\ ~journal[entry].msg
          /\ Fails("No log line could be read from systemd")
       \/ /\ journal[entry].msg
          /\ Fails("write to log_writer")

\* Mutant: the flush is left out; the line stays in the writer's buffer.
FlushForgotten ==
    /\ pc = "flush"
    /\ pc' = AfterFlush(entry)
    /\ UNCHANGED <<journal, boot, exit, handler, EXIT_FLAG, reader, entry, sink,
                   sinkBuf, cursorFile, tmpFile, woff, starts, runCursor, runSink0,
                   runLen0, sinceFlag, origin, stdout, cause>>

\* Mutant: the result of flush is dropped instead of returned with ?.
FlushFailureIgnored ==
    /\ pc = "flush"
    /\ \/ /\ sink' = sink \o sinkBuf
          /\ sinkBuf' = <<>>
          /\ sinceFlag' = IF EXIT_FLAG THEN sinceFlag + Len(sinkBuf) ELSE sinceFlag
          /\ pc' = AfterFlush(entry)
          /\ UNCHANGED <<journal, boot, exit, handler, EXIT_FLAG, reader, entry,
                         cursorFile, tmpFile, woff, starts, runCursor, runSink0,
                         runLen0, origin, stdout, cause>>
       \/ /\ pc' = AfterFlush(entry)
          /\ UNCHANGED <<journal, boot, exit, handler, EXIT_FLAG, reader, entry, sink,
                         sinkBuf, cursorFile, tmpFile, woff, starts, runCursor,
                         runSink0, runLen0, sinceFlag, origin, stdout, cause>>

\* writer.flush().
Flush ==
    /\ pc = "flush"
    /\ \/ /\ sink' = sink \o sinkBuf
          /\ sinkBuf' = <<>>
          /\ sinceFlag' = IF EXIT_FLAG THEN sinceFlag + Len(sinkBuf) ELSE sinceFlag
          /\ pc' = AfterFlush(entry)
          /\ UNCHANGED <<journal, boot, exit, handler, EXIT_FLAG, reader, entry,
                         cursorFile, tmpFile, woff, starts, runCursor, runSink0,
                         runLen0, origin, stdout, cause>>
       \/ Fails("Flushing writer")

\* write_cursor: OpenOptions create(true).write(true).append(false) on the
\* staging file.  An existing file is opened as it is, at offset 0.
OpenStaging(f) == IF f.exists THEN f ELSE File(<<>>)

WcOpen ==
    /\ pc = "wc_open"
    /\ \/ /\ tmpFile' = OpenStaging(tmpFile)
          /\ woff' = 0
          /\ pc' = "wc_write"
          /\ UNCHANGED <<journal, boot, exit, handler, EXIT_FLAG, reader, entry, sink,
                         sinkBuf, cursorFile, starts, runCursor, runSink0, runLen0,
                         sinceFlag, origin, stdout, cause>>
       \/ Fails("Open cursor file")

\* Mutant: write instead of write_all; a short write is not continued.
WcWriteShort ==
    /\ pc = "wc_write"
    /\ \/ /\ woff < Len(journal[entry].cursor)
          /\ tmpFile' = File(WriteAt(tmpFile.data, woff, journal[entry].cursor[woff + 1]))
          /\ woff' = woff + 1
          /\ UNCHANGED <<journal, boot, pc, exit, handler, EXIT_FLAG, reader, entry,
                         sink, sinkBuf, cursorFile, starts, runCursor, runSink0,
                         runLen0, sinceFlag, origin, stdout, cause>>
       \/ /\ woff >= 1
          /\ pc' = "wc_rename"
          /\ UNCHANGED <<journal, boot, exit, handler, EXIT_FLAG, reader, entry, sink,
                         sinkBuf, cursorFile, tmpFile, woff, starts, runCursor,
                         runSink0, runLen0, sinceFlag, origin, stdout, cause>>
       \/ Fails("Writing cursor")

\* write_cursor: file.write_all(cursor.as_bytes()), byte by byte.
WcWriteAll ==
    /\ pc = "wc_write"
    /\ \/ /\ woff < Len(journal[entry].cursor)
          /\ tmpFile' = File(WriteAt(tmpFile.data, woff, journal[entry].cursor[woff + 1]))
          /\ woff' = woff + 1
          /\ UNCHANGED <<journal, boot, pc, exit, handler, EXIT_FLAG, reader, entry,
                         sink, sinkBuf, cursorFile, starts, runCursor, runSink0,
                         runLen0, sinceFlag, origin, stdout, cause>>
       \/ /\ woff = Len(journal[entry].cursor)
          /\ pc' = "wc_rename"
          /\ UNCHANGED <<journal, boot, exit, handler, EXIT_FLAG, reader, entry, sink,
                         sinkBuf, cursorFile, tmpFile, woff, starts, runCursor,
                         runSink0, runLen0, sinceFlag, origin, stdout, cause>>
       \/ Fails("Writing cursor")

\* Mutant: a failed rename is ignored and write_log_line returns Ok.
WcRenameFailureIgnored ==
    /\ pc = "wc_rename"
    /\ \/ /\ cursorFile' = tmpFile
          /\ tmpFile' = NoFile
          /\ woff' = 0
          /\ pc' = "check"
          /\ UNCHANGED <<journal, boot, exit, handler, EXIT_FLAG, reader, entry, sink,
                         sinkBuf, starts, runCursor, runSink0, runLen0, sinceFlag, origin, stdout, cause>>
       \/ /\ woff' = 0
          /\ pc' = "check"
          /\ UNCHANGED <<journal, boot, exit, handler, EXIT_FLAG, reader, entry, sink,
                         sinkBuf, cursorFile, tmpFile, starts, runCursor, runSink0,
                         runLen0, sinceFlag, origin, stdout, cause>>

\* write_cursor: rename(&tmp_file, cursor_path).
WcRename ==
    /\ pc = "wc_rename"
    /\ \/ /\ cursorFile' = tmpFile
          /\ tmpFile' = NoFile
          /\ woff' = 0
          /\ pc' = "check"
          /\ UNCHANGED <<journal, boot, exit, handler, EXIT_FLAG, reader, entry, sink,
                         sinkBuf, starts, runCursor, runSink0, runLen0, sinceFlag, origin, stdout, cause>>
       \/ Fails("Moving cursor file")

\* Mutant: the loop does not look at EXIT_FLAG.
CheckExitIgnoresFlag ==
    /\ pc = "check"
    /\ pc' = "reading"
    /\ UNCHANGED <<journal, boot, exit, handler, EXIT_FLAG, reader, entry, sink,
                   sinkBuf, cursorFile, tmpFile, woff, starts, runCursor, runSink0,
                   runLen0, sinceFlag, origin, stdout, cause>>

\* run: after write_log_line returned Ok, break if EXIT_FLAG is set; the
\* loop left, run returns Ok and the process exits with status 0.
CheckExit ==
    /\ pc = "check"
    /\ IF EXIT_FLAG
       THEN ProcessEnds("ok")
       ELSE /\ pc' = "reading"
            /\ UNCHANGED <<journal, boot, exit, handler, EXIT_FLAG, reader, entry, sink,
                           sinkBuf, cursorFile, tmpFile, woff, starts, runCursor,
                           runSink0, runLen0, sinceFlag, origin, stdout, cause>>

-----------------------------------------------------------------------------
(* The environment *)

\* The process dies where it stands (SIGKILL, power loss).
Crash ==
    /\ pc # "down"
    /\ ProcessEnds("crash")

\* journald appends an entry.
AppendEntry ==
    /\ Len(journal) < MaxRecords
    /\ \E e \in Entries(Len(journal) + 1) : journal' = Append(journal, e)
    /\ UNCHANGED <<boot, pc, exit, handler, EXIT_FLAG, reader, entry, sink, sinkBuf,
                   cursorFile, tmpFile, woff, starts, runCursor, runSink0, runLen0,
                   sinceFlag, origin, stdout, cause>>

\* The machine reboots while no process runs: later entries are of a new boot.
Reboot ==
    /\ pc = "down"
    /\ boot # Len(journal) + 1
    /\ boot' = Len(journal) + 1
    /\ UNCHANGED <<journal, pc, exit, handler, EXIT_FLAG, reader, entry, sink, sinkBuf,
                   cursorFile, tmpFile, woff, starts, runCursor, runSink0, runLen0,
                   sinceFlag, origin, stdout, cause>>

-----------------------------------------------------------------------------

Init ==
    /\ journal = <<>>
    /\ boot = 1
    /\ pc = "down"
    /\ exit = "none"
    /\ handler = FALSE
    /\ EXIT_FLAG = FALSE
    /\ reader = Closed
    /\ entry = 0
    /\ sink = <<>>
    /\ sinkBuf = <<>>
    /\ cursorFile = NoFile
    /\ tmpFile = NoFile
    /\ woff = 0
    /\ starts = 0
    /\ runCursor = 0
    /\ runSink0 = 0
    /\ runLen0 = 0
    /\ sinceFlag = 0
    /\ origin = 1
    /\ stdout = {}
    /\ cause = ""

Next ==
    \/ Start
    \/ InstallHandler
    \/ RunOpen
    \/ find_cursor
    \/ IterNext
    \/ GetTime
    \/ WriteLn
    \/ Flush
    \/ WcOpen
    \/ WcWriteAll
    \/ WcRename
    \/ CheckExit
    \/ \E sig \in Signals : Signal(sig)
    \/ Crash
    \/ AppendEntry
    \/ Reboot

Spec == Init /\ [][Next]_vars

\* The steps of the process and of signals, crashes and reboots: Next
\* without the journal's growth.
ProcessNext ==
    \/ Start
    \/ InstallHandler
    \/ RunOpen
    \/ find_cursor
    \/ IterNext
    \/ GetTime
    \/ WriteLn
    \/ Flush
    \/ WcOpen
    \/ WcWriteAll
    \/ WcRename
    \/ CheckExit
    \/ \E sig \in Signals : Signal(sig)
    \/ Crash
    \/ Reboot

\* The process goes on with its code: a call that can return Ok does, the
\* loop that sees the flag breaks, and an entry without MESSAGE ends
\* write_log_line with its error.
Progress ==
    /\ \/ InstallHandler
       \/ RunOpen
       \/ find_cursor
       \/ IterNext
       \/ GetTime
       \/ WriteLn
       \/ Flush
       \/ WcOpen
       \/ WcWriteAll
       \/ WcRename
       \/ CheckExit
    /\ pc' # "down" \/ exit' = "ok" \/ cause' = "No log line could be read from systemd"

\* The process is scheduled, and journald appends an entry when it can.
LiveSpec == Init /\ [][Next]_vars /\ WF_vars(Progress) /\ WF_vars(AppendEntry)

-----------------------------------------------------------------------------
(* The line of one entry, whatever its fields hold *)

\* The characters a PRIORITY is made of here: digits, signs, a letter and
\* a blank.
PriorityChars == {"0", "1", "3", "7", "8", "+", "-", "a", " "}

\* The values of PRIORITY: every string of at most two of the characters,
\* and some longer ones around the width of u8.
PriorityStrings ==
    {<<>>} \cup {<<a>> : a \in PriorityChars}
           \cup {<<a, b>> : a \in PriorityChars, b \in PriorityChars}
           \cup {<<"0", "0", "7">>, <<"2", "5", "5">>, <<"2", "5", "6">>, <<"+", "0", "4">>}

\* The values of _HOSTNAME, SYSLOG_IDENTIFIER and MESSAGE: any bytes,
\* a line feed among them.
HostStrings == {<<"web">>, <<"web", "\n", "db">>}

IdentStrings == {<<"sshd">>, <<"sshd", "\n">>}

MessageStrings == {<<"disk", " ", "full">>, <<"disk", "\n", "full">>}

\* One entry, the journal's first, with a cursor and a message.
FieldEntries ==
    { [cursor |-> Token(1, 1), msg |-> TRUE, text |-> t, prio |-> p, host |-> h, ident |-> d] :
      t \in MessageStrings,
      p \in {None} \cup {Some(v) : v \in PriorityStrings},
      h \in {None} \cup {Some(v) : v \in HostStrings},
      d \in {None} \cup {Some(v) : v \in IdentStrings} }

\* The journal holds one entry when the daemon is first started.
FieldsInit ==
    /\ journal \in {<<e>> : e \in FieldEntries}
    /\ boot = 1
    /\ pc = "down"
    /\ exit = "none"
    /\ handler = FALSE
    /\ EXIT_FLAG = FALSE
    /\ reader = Closed
    /\ entry = 0
    /\ sink = <<>>
    /\ sinkBuf = <<>>
    /\ cursorFile = NoFile
    /\ tmpFile = NoFile
    /\ woff = 0
    /\ starts = 0
    /\ runCursor = 0
    /\ runSink0 = 0
    /\ runLen0 = 0
    /\ sinceFlag = 0
    /\ origin = 1
    /\ stdout = {}
    /\ cause = ""

FieldsSpec == FieldsInit /\ [][ProcessNext]_vars

-----------------------------------------------------------------------------
(* Two given entries *)

\* The entries journald appends: cursor "a", message "boot ok", priority 6,
\* then cursor "b", message "disk full", priority 3.
ScenarioRecords ==
    << [cursor |-> <<"a">>, msg |-> TRUE, text |-> <<"boot", " ", "ok">>,
        prio |-> Some(<<"6">>), host |-> None, ident |-> None],
       [cursor |-> <<"b">>, msg |-> TRUE, text |-> <<"disk", " ", "full">>,
        prio |-> Some(<<"3">>), host |-> None, ident |-> None] >>

\* journald appends the next of the two entries.
AppendScenario ==
    /\ Len(journal) < Len(ScenarioRecords)
    /\ journal' = Append(journal, ScenarioRecords[Len(journal) + 1])
    /\ UNCHANGED <<boot, pc, exit, handler, EXIT_FLAG, reader, entry, sink, sinkBuf,
                   cursorFile, tmpFile, woff, starts, runCursor, runSink0, runLen0,
                   sinceFlag, origin, stdout, cause>>

ScenarioNext == ProcessNext \/ AppendScenario

ScenarioSpec == Init /\ [][ScenarioNext]_vars

-----------------------------------------------------------------------------

\* What writeln! hands to the writer for an entry: the text and a line feed.
Written(e) == FormatLine(e) \o <<"\n">>

\* The severity in the line of an entry: what stands between "[" and "]".
SeverityIn(line) == line[6]

-----------------------------------------------------------------------------
(* Properties *)

Range(q) == { q[j] : j \in DOMAIN q }

\* The lines this process has written to the log writer.
RunLines == SubSeq(sink \o sinkBuf, runSink0 + 1, Len(sink) + Len(sinkBuf))

\* The process is in the loop of run.
InLoop == pc \in {"reading", "time", "writeln", "flush", "wc_open", "wc_write",
                  "wc_rename", "check"}

\* The process is in write_cursor.
InWriteCursor == pc \in {"wc_open", "wc_write", "wc_rename"}

\* C1 Resume correctness: a process that found the cursor of entry k in the
\* cursor file writes lines for the entries k+1, k+2, ... in this order,
\* each once and none left out, and no line for entry k; whenever it waits
\* for the next entry it has written a line for every entry up to the one
\* the reader stands on.
C1_ResumeDeliversNextOnce ==
    runCursor > 0 =>
        /\ \A j \in DOMAIN RunLines : RunLines[j] = runCursor + j
        /\ pc = "reading" => Len(RunLines) = reader.idx - runCursor

\* A restarted process has resumed after entry 1 and delivered entry 2.
C1_Witness ==
    /\ starts >= 2
    /\ runCursor = 1
    /\ pc = "reading"
    /\ RunLines = <<2>>

C3_CursorFileHoldsOneToken ==
    cursorFile.exists => Named(cursorFile.data) # {}

\* C4 Atomicity of one save: while write_cursor saves the cursor t of the
\* entry over a cursor file that holds the cursor s of an entry, every step,
\* a crash included, leaves the cursor file as it is, except the rename,
\* which leaves it holding exactly t.
C4_SaveIsAtomic ==
    [][(InWriteCursor /\ cursorFile.exists /\ Named(cursorFile.data) # {}) =>
           \/ cursorFile' = cursorFile
           \/ pc = "wc_rename" /\ cursorFile' = File(journal[entry].cursor)]_vars

\* The staging file holds all of t and the cursor file still holds s.
C4_Witness ==
    /\ pc = "wc_rename"
    /\ cursorFile.exists
    /\ Named(cursorFile.data) # {}
    /\ cursorFile.data # journal[entry].cursor
    /\ tmpFile.data = journal[entry].cursor

C7_AtMostOneMoreRecord ==
    /\ [](sinceFlag <= 1)
    /\ [][(pc = "check" /\ EXIT_FLAG) => pc' \in {"check", "down"}]_vars
    /\ [][(pc = "check" /\ pc' = "reading") => ~EXIT_FLAG]_vars

\* One line was delivered after the flag was set, and the loop is at the check.
C7_Witness ==
    /\ pc = "check"
    /\ EXIT_FLAG
    /\ sinceFlag = 1

\* C8 Both termination signals lead to a graceful stop: once the handler is
\* installed, neither SIGTERM nor SIGHUP kills the process.
C8_BothSignalsGraceful ==
    [][handler => exit' \notin {"SIGTERM", "SIGHUP"}]_vars

\* C9 The shutdown flag is monotone: a new process starts with the flag
\* unset, and while the process lives no step, whatever signal arrives,
\* unsets it.
C9_FlagMonotone ==
    /\ [][starts' # starts => ~EXIT_FLAG']_vars
    /\ [][(EXIT_FLAG /\ pc' # "down") => EXIT_FLAG']_vars

\* The flag is set while the loop waits for an entry and signals keep coming.
C9_Witness ==
    /\ EXIT_FLAG
    /\ pc = "reading"
    /\ NextIndex(reader) > Len(journal)

\* C10 Fresh-start property: a process that found no cursor file writes
\* lines only for entries appended after it started.
C10_FreshStartFromNow ==
    (InLoop /\ runCursor = 0) => \A j \in DOMAIN RunLines : RunLines[j] > runLen0

\* C12 Cursor currency: when write_log_line has returned Ok for an entry
\* that carries a cursor t, the cursor file holds exactly t.
C12_CursorCurrent ==
    (pc = "check" /\ HasCursor(entry)) => cursorFile = File(journal[entry].cursor)

\* C13 Missing position token: while the process handles an entry that has
\* a message and no __CURSOR, no step changes the cursor file or the
\* staging file and none enters write_cursor; the flush puts the entry's
\* line into the sink and leads to the check of the flag, from where the
\* loop goes on to read; and the cursor file changes only in the rename of
\* an entry that carries a cursor and whose line is in the sink.
C13_NoCursorNoSave ==
    [][/\ (InLoop /\ entry # 0 /\ journal[entry].msg /\ ~HasCursor(entry)) =>
              /\ cursorFile' = cursorFile
              /\ tmpFile' = tmpFile
              /\ pc' \notin {"wc_open", "wc_write", "wc_rename"}
              /\ (pc = "flush" /\ pc' \notin {"flush", "down"}) =>
                     (pc' = "check" /\ sink' = Append(sink, entry) /\ sinkBuf' = <<>>)
              /\ (pc = "check" /\ ~EXIT_FLAG /\ pc' \notin {"down", "check"}) =>
                     pc' = "reading"
       /\ cursorFile' # cursorFile =>
              (pc = "wc_rename" /\ HasCursor(entry) /\ entry \in Range(sink))]_vars

\* After an entry with a cursor was saved, the line of an entry without one
\* is in the sink, the cursor file is the first entry's, no staging file is
\* there, and the loop waits for the next entry.
C13_Witness ==
    /\ pc = "reading"
    /\ entry = 2
    /\ journal[2].msg
    /\ ~HasCursor(2)
    /\ RunLines = <<1, 2>>
    /\ sinkBuf = <<>>
    /\ HasCursor(1)
    /\ cursorFile = File(journal[1].cursor)
    /\ tmpFile = NoFile

\* C15 Deliver-before-commit: in every state, after crashes too, the cursor
\* file holds the cursor of an entry whose line is in the sink.
C15_CursorNeverAheadOfSink ==
    cursorFile.exists => \E i \in Named(cursorFile.data) : i \in Range(sink)

\* The contexts of the errors of find_cursor's seeks and step back.
SeekFailures == {"Seeking to journald tail", "seek to cursor",
                 "Getting previous journald entry"}

\* C17 Startup seek failure is fatal: a step of find_cursor changes neither
\* the sink nor the cursor file nor the staging file; a failed seek or step
\* back ends the process with an error and no line written by it; and the
\* loop is entered only with the reader placed, with a cursor file right
\* behind the entry its cursor names.
C17_SeekFailureIsFatal ==
    [][pc = "find_cursor" =>
           /\ sink' = sink
           /\ cursorFile' = cursorFile
           /\ tmpFile' = tmpFile
           /\ cause' \in SeekFailures =>
                  (pc' = "down" /\ exit' = "error" /\ Len(sink') = runSink0)
           /\ pc' = "reading" =>
                  /\ reader'.mode = "at" \/ reader' = SeekThisBoot
                  /\ cursorFile.exists =>
                         /\ Named(cursorFile.data) # {}
                         /\ \E i \in Named(cursorFile.data) : reader' = [mode |-> "at", idx |-> i]]_vars

\* The second process has ended with the error of the seek to the cursor:
\* the second entry is not delivered and the cursor file is the first's.
C17_Witness ==
    /\ pc = "down"
    /\ exit = "error"
    /\ cause = "seek to cursor"
    /\ starts = 2
    /\ Len(journal) = 2
    /\ sink = <<1>>
    /\ cursorFile = File(journal[1].cursor)

\* C19 Signal handler frame: a run of the signal handler changes nothing
\* but EXIT_FLAG: it writes nothing to standard output, the sink or the
\* cursor file and leaves the loop where it is.
C19_HandlerOnlyStoresFlag ==
    [][\A sig \in Signals :
           (pc # "down" /\ handler /\ Installed(sig) /\ HandlerRuns(sig)) =>
               UNCHANGED <<stdout, sink, sinkBuf, cursorFile, tmpFile, pc, entry, reader>>]_vars

\* The contexts of the errors of writeln! and flush.
SinkFailures == {"write to log_writer", "Flushing writer"}

\* C20 Sink failure never advances the cursor: no step of writeln! or flush
\* changes the cursor file or the staging file; write_log_line goes past
\* writeln! only with the line handed to the writer and past flush only
\* with the line in the sink, so write_cursor is not reached after a
\* failure; and a failure of either ends the process with an error.
C20_SinkFailureBeforeSave ==
    [][(pc = "writeln" \/ pc = "flush") =>
           /\ cursorFile' = cursorFile
           /\ tmpFile' = tmpFile
           /\ (pc = "writeln" /\ pc' \notin {"writeln", "down"}) =>
                  (pc' = "flush" /\ sinkBuf' = Append(sinkBuf, entry))
           /\ (pc = "flush" /\ pc' \notin {"flush", "down"}) =>
                  (pc' = AfterFlush(entry) /\ sinkBuf' = <<>> /\ entry \in Range(sink'))
           /\ cause' \in SinkFailures => (pc' = "down" /\ exit' = "error")]_vars

\* The flush of the second entry's line failed: the process has ended with
\* the error and the cursor file is still the first entry's.
C20_Witness ==
    /\ pc = "down"
    /\ exit = "error"
    /\ cause = "Flushing writer"
    /\ Len(journal) = 2
    /\ HasCursor(1)
    /\ HasCursor(2)
    /\ cursorFile = File(journal[1].cursor)
    /\ tmpFile = NoFile
    /\ sink = <<1>>

\* A string is a number when it is one or more decimal digits, with or
\* without a "+" before them.
IsNumber(str) ==
    /\ str # <<>>
    /\ IF Head(str) = "+"
       THEN Tail(str) # <<>> /\ \A j \in 2..Len(str) : IsDigit(str[j])
       ELSE \A j \in 1..Len(str) : IsDigit(str[j])

\* The number written by digits, by position.
RECURSIVE NumberOf(_)
NumberOf(str) ==
    IF str = <<>> THEN 0
    ELSE IF Head(str) = "+" THEN NumberOf(Tail(str))
    ELSE DigitValue(Head(str)) * 10 ^ (Len(str) - 1) + NumberOf(Tail(str))

LongNames == <<"Emergency", "Alert", "Critical", "Error", "Warning", "Notice",
               "Informational", "Debug">>

\* C14 Severity rendering and default: the line written for an entry names
\* the severity "Emergency" when PRIORITY is missing, is no number or is a
\* number outside 0..7, and the n-th of the long names when it is the
\* number n in 0..7.
C14_SeverityRendering ==
    \A j \in DOMAIN sink :
        LET e == journal[sink[j]]
            severity == SeverityIn(Written(e))
        IN  IF e.prio.some /\ IsNumber(e.prio.val) /\ NumberOf(e.prio.val) \in 0..7
            THEN severity = LongNames[NumberOf(e.prio.val) + 1]
            ELSE severity = "Emergency"

\* The line of an entry whose PRIORITY is "256" is in the sink.
C14_Witness ==
    /\ sink = <<1>>
    /\ journal[1].prio = Some(<<"2", "5", "6">>)
    /\ SeverityIn(Written(journal[1])) = "Emergency"

\* The line of an entry whose PRIORITY is "3" is in the sink.
C14_NamedWitness ==
    /\ sink = <<1>>
    /\ journal[1].prio = Some(<<"3">>)
    /\ SeverityIn(Written(journal[1])) = "Error"

\* The line feeds in a string.
LineFeeds(str) == Cardinality({j \in DOMAIN str : str[j] = "\n"})

\* C16 One line per record, in source order: what is written for an entry
\* is one line, with no line feed but the one that ends it, whatever
\* MESSAGE, _HOSTNAME and SYSLOG_IDENTIFIER hold, and a process writes the
\* lines in the order of the entries, one for each.
C16_OneLinePerRecord ==
    /\ \A j \in DOMAIN sink : LineFeeds(Written(journal[sink[j]])) = 1
    /\ \A j, k \in DOMAIN RunLines : j < k => RunLines[j] < RunLines[k]

\* The string holds the pieces one after the other.
Contains(str, pieces) ==
    \E k \in 1..(Len(str) - Len(pieces) + 1) : SubSeq(str, k, k + Len(pieces) - 1) = pieces

\* The first process, started with no cursor file at the head of the
\* journal, has handled both entries and waits for a third.
ScenarioDone ==
    /\ starts = 1
    /\ origin = 1
    /\ journal = ScenarioRecords
    /\ pc = "reading"
    /\ reader = [mode |-> "at", idx |-> 2]

\* C11 End-to-end scenario, as stated: after the two entries the sink has
\* two lines in their order, the second with "[Critical]" and "disk full",
\* and the cursor file holds "b".
C11_ScenarioCritical ==
    ScenarioDone =>
        /\ sink = <<1, 2>>
        /\ Contains(Written(journal[2]), <<"[", "Critical", "]">>)
        /\ Contains(Written(journal[2]), <<"disk", " ", "full">>)
        /\ cursorFile = File(<<"b">>)

\* C11 End-to-end scenario, amended: after the two entries the sink has
\* two lines in their order, the first with "[Informational]" and "boot ok",
\* the second with "[Error]" and "disk full", each one line, and the cursor
\* file holds "b".
C11_ScenarioError ==
    ScenarioDone =>
        /\ sink = <<1, 2>>
        /\ LineFeeds(Written(journal[1])) = 1
        /\ LineFeeds(Written(journal[2])) = 1
        /\ Contains(Written(journal[1]), <<"[", "Informational", "]">>)
        /\ Contains(Written(journal[1]), <<"boot", " ", "ok">>)
        /\ Contains(Written(journal[2]), <<"[", "Error", "]">>)
        /\ Contains(Written(journal[2]), <<"disk", " ", "full">>)
        /\ cursorFile = File(<<"b">>)

\* Both entries are handled and the cursor file holds "b".
C11_Witness ==
    /\ ScenarioDone
    /\ sink = <<1, 2>>
    /\ sinkBuf = <<>>
    /\ cursorFile = File(<<"b">>)
    /\ tmpFile = NoFile

\* The reader has no entry to yield: the iterator blocks.
Blocked == pc = "reading" /\ NextIndex(reader) > Len(journal)

====
